---- MODULE Spec2Model ----
(***************************************************************************)
(* A model of tricolor.py: the tricolor posterisation of an image.         *)
(*                                                                         *)
(* normalize_color_distribution (lines 21-40) is modelled one statement    *)
(* group at a time: the distance tensor, the raw argmin assignment, the    *)
(* three steps of the rebalancing loop, the painting of the output.        *)
(* hex_to_rgb (lines 7-13) and main (lines 88-106) are modelled over       *)
(* strings held as sequences of one-character strings.                     *)
(*                                                                         *)
(* Numbers.  The perceptual image and the converted palette are 8-bit      *)
(* unsigned arrays, so their difference is taken modulo 256 (Uint8Sub).    *)
(* np.linalg.norm works in float64; the images and palettes drawn here are *)
(* neutral greys (a = b = 128), for which every norm is an integer and     *)
(* float64 holds it, and every sum of two of them, exactly.                *)
(***************************************************************************)
EXTENDS Integers, Sequences, FiniteSets

VARIABLES
    shape,            \* lab_image.shape[0], lab_image.shape[1]
    lab_image,        \* the perceptual-space image, grid position -> triple
    palette_rgb,      \* the palette, index 0..2 -> RGB triple
    distances,        \* the distance tensor, grid position -> (0..2 -> norm)
    assignments,      \* the assignment map, grid position -> 0..2
    raw,              \* history: the assignment map as np.argmin left it
    target_pixels,    \* T
    i,                \* the index the rebalancing loop is at
    normalized_image, \* the output image, grid position -> RGB triple
    pc,               \* position inside normalize_color_distribution
    run,              \* which call of normalize_color_distribution this is
    first_palette,    \* history: the palette of the first call
    first_output,     \* history: the output image of the first call
    hex_str,          \* the argument of hex_to_rgb
    hex_result,       \* what hex_to_rgb returned or raised
    hex_pc,           \* position of the call of hex_to_rgb
    args_color,       \* args.color, the --color strings in order
    args_images,      \* args.images, the image paths in order
    colors_rgb,       \* the converted palette of main
    image_idx,        \* the position of main's loop over args.images
    process_calls,    \* the image paths process_image was called with
    saved,            \* the output files written
    main_pc           \* position inside main

norm_vars == <<shape, lab_image, palette_rgb, distances, assignments, raw,
               target_pixels, i, normalized_image, pc, run, first_palette,
               first_output>>

hex_vars == <<hex_str, hex_result, hex_pc>>

main_vars == <<args_color, args_images, colors_rgb, image_idx,
               process_calls, saved, main_pc>>

vars == <<norm_vars, hex_vars, main_vars>>

(***************************************************************************)
(* Bounds of the model.                                                    *)
(***************************************************************************)
MaxH == 2
MaxW == 3
MaxPixels == 6
MaxUniformSide == 3
MaxUniformPixels == 9
MaxOrderPixels == 4
MaxSlack == 1
MaxColors == 4
MaxImages == 2

(***************************************************************************)
(* Colours.                                                                *)
(***************************************************************************)
Black == <<0, 0, 0>>
Gray  == <<128, 128, 128>>
White == <<255, 255, 255>>

PaletteColors == {Black, Gray, White}

\* cv2.cvtColor(.., COLOR_RGB2LAB) on 8-bit input: L scaled to 0..255,
\* a and b offset by 128.  The values of the library on the three colours.
rgb_to_lab(color_rgb) ==
    CASE color_rgb = Black -> <<0, 128, 128>>
      [] color_rgb = Gray  -> <<137, 128, 128>>
      [] color_rgb = White -> <<255, 128, 128>>

\* L levels of the image pixels: black, a dark grey below the palette's
\* grey, and the level halfway between the palette's grey and white.
PixelLevels == {0, 100, 196}
\* L levels of the uniform images: the three palette colours themselves.
UniformLevels == {0, 137, 255}

LabPixel(l) == <<l, 128, 128>>

Palettes == [0..2 -> PaletteColors]

(***************************************************************************)
(* The grid.                                                               *)
(***************************************************************************)
GridOf(sh) == (0..(sh[1] - 1)) \X (0..(sh[2] - 1))
Grid == GridOf(shape)
Total == shape[1] * shape[2]
\* lab_image.size
Size == shape[1] * shape[2] * 3

Shapes(maxH, maxW, maxPixels) ==
    {sh \in (1..maxH) \X (1..maxW) : sh[1] * sh[2] <= maxPixels}

(***************************************************************************)
(* Lines 23-26: the distance tensor.                                       *)
(***************************************************************************)
\* uint8 - uint8 in numpy stays uint8: each channel difference modulo 256.
Uint8Sub(p, q) == [k \in 1..3 |-> (p[k] - q[k]) % 256]

SumSq(v) == v[1] * v[1] + v[2] * v[2] + v[3] * v[3]

ISqrt(n) == CHOOSE r \in 0..442 : r * r <= n /\ (r + 1) * (r + 1) > n

\* np.linalg.norm(.., axis=2) of one pixel's difference.
Norm(v) == ISqrt(SumSq(v))

Distance(pixel, color_rgb) == Norm(Uint8Sub(pixel, rgb_to_lab(color_rgb)))

DistanceTensor(image, palette) ==
    [p \in DOMAIN image |-> [k \in 0..2 |-> Distance(image[p], palette[k])]]

(***************************************************************************)
(* Lines 27-28: the raw assignment and the target.                         *)
(***************************************************************************)
\* np.argmin: the first index holding the minimum.
Argmin(d) ==
    CHOOSE k \in 0..2 :
        /\ \A j \in 0..2 : d[k] <= d[j]
        /\ \A j \in 0..2 : j < k => d[j] > d[k]

\* int(target_fraction * lab_image.size / 3) with target_fraction = 1/3.
\* size is 3 * H * W, and float64 gives (1/3) * size = H * W exactly.
TargetPixels(size) == (size \div 3) \div 3

(***************************************************************************)
(* Lines 29-36: one step of the rebalancing loop.                          *)
(***************************************************************************)
Count(a, k) == Cardinality({p \in DOMAIN a : a[p] = k})

\* np.argwhere(assignments == k): the positions in row-major order.
RECURSIVE ArgWhereFrom(_, _, _, _)
ArgWhereFrom(a, k, sh, flat) ==
    IF flat >= sh[1] * sh[2] THEN <<>>
    ELSE LET p == <<flat \div sh[2], flat % sh[2]>>
             rest == ArgWhereFrom(a, k, sh, flat + 1)
         IN IF a[p] = k THEN <<p>> \o rest ELSE rest

ArgWhere(a, k, sh) == ArgWhereFrom(a, k, sh, 0)

\* reassign_distances[:, (k+1) % 3] + reassign_distances[:, (k+2) % 3]
CombinedDistance(d, k) == d[(k + 1) % 3] + d[(k + 2) % 3]

\* Mutant of ArgsortFirst: a descending sort.
ArgsortDescendingFirst(keys, m) ==
    {S \in SUBSET (1..Len(keys)) :
        /\ Cardinality(S) = m
        /\ \A a \in S : \A b \in (1..Len(keys)) \ S : keys[a] >= keys[b]}

\* Mutant of ArgsortFirst: the slice stops one entry early.
ArgsortFirstButOne(keys, m) ==
    {S \in SUBSET (1..Len(keys)) :
        /\ Cardinality(S) = m - 1
        /\ \A a \in S : \A b \in (1..Len(keys)) \ S : keys[a] <= keys[b]}

\* np.argsort(keys)[:m]: the index sets the first m entries of an ascending
\* argsort can hold.  The default sort is not stable, so equal keys come in
\* any order.
ArgsortFirst(keys, m) ==
    {S \in SUBSET (1..Len(keys)) :
        /\ Cardinality(S) = m
        /\ \A a \in S : \A b \in (1..Len(keys)) \ S : keys[a] <= keys[b]}

\* Mutant of ExcessPixels: the excess is one too small.
ExcessPixelsOffByOne(a, k, t) == Count(a, k) - t - 1

\* Mutant of ExcessPixels: no index is ever in excess.
ExcessPixelsNever(a, k, t) == 0

ExcessPixels(a, k, t) == Count(a, k) - t

\* Mutant of RebalanceStep: the excess goes to (k+2) mod 3.
RebalanceStepToPrevious(a, d, k, t, sh) ==
    LET excess_pixels == Count(a, k) - t
        reassign_indices == ArgWhereFrom(a, k, sh, 0)
        keys == [j \in 1..Len(reassign_indices) |->
                    d[reassign_indices[j]][(k + 1) % 3]
                        + d[reassign_indices[j]][(k + 2) % 3]]
    IN IF excess_pixels > 0
       THEN {[p \in DOMAIN a |->
                IF \E j \in S : reassign_indices[j] = p
                THEN (k + 2) % 3 ELSE a[p]] :
             S \in {S \in SUBSET (1..Len(keys)) :
                       /\ Cardinality(S) = excess_pixels
                       /\ \A x \in S : \A y \in (1..Len(keys)) \ S :
                             keys[x] <= keys[y]}}
       ELSE {a}

\* The assignment maps the step for index k can leave.
RebalanceStep(a, d, k, t, sh) ==
    LET excess_pixels == ExcessPixels(a, k, t)
        reassign_indices == ArgWhere(a, k, sh)
        keys == [j \in 1..Len(reassign_indices) |->
                    CombinedDistance(d[reassign_indices[j]], k)]
    IN IF excess_pixels > 0
       THEN {[p \in DOMAIN a |->
                IF \E j \in S : reassign_indices[j] = p
                THEN (k + 1) % 3 ELSE a[p]] :
             S \in ArgsortFirst(keys, excess_pixels)}
       ELSE {a}

(***************************************************************************)
(* Lines 37-39: the output image.                                          *)
(***************************************************************************)
Zeros(a) == [p \in DOMAIN a |-> <<0, 0, 0>>]

\* normalized_image[assignments == k] = palette_rgb[k]
Paint(img, a, palette, k) ==
    [p \in DOMAIN img |-> IF a[p] = k THEN palette[k] ELSE img[p]]

\* Mutant of PaintAll: the last palette index is not painted.
PaintFirstTwo(a, palette) ==
    Paint(Paint(Zeros(a), a, palette, 0), a, palette, 1)

PaintAll(a, palette) ==
    Paint(Paint(Paint(Zeros(a), a, palette, 0), a, palette, 1), a, palette, 2)

(***************************************************************************)
(* The state machine of normalize_color_distribution.                      *)
(***************************************************************************)
None == <<>>

HexIdle ==
    /\ hex_str = None
    /\ hex_result = None
    /\ hex_pc = "idle"

MainIdle ==
    /\ args_color = None
    /\ args_images = None
    /\ colors_rgb = None
    /\ image_idx = 0
    /\ process_calls = None
    /\ saved = {}
    /\ main_pc = "idle"

NormIdle ==
    /\ shape = <<0, 0>>
    /\ lab_image = None
    /\ palette_rgb = None
    /\ distances = None
    /\ assignments = None
    /\ raw = None
    /\ target_pixels = 0
    /\ i = 0
    /\ normalized_image = None
    /\ pc = "idle"
    /\ run = 0
    /\ first_palette = None
    /\ first_output = None

Start(sh, image, palette) ==
    /\ HexIdle
    /\ MainIdle
    /\ shape = sh
    /\ lab_image = image
    /\ palette_rgb = palette
    /\ distances = None
    /\ assignments = None
    /\ raw = None
    /\ target_pixels = 0
    /\ i = 0
    /\ normalized_image = None
    /\ pc = "distances"
    /\ run = 1
    /\ first_palette = None
    /\ first_output = None

Init ==
    \E sh \in Shapes(MaxH, MaxW, MaxPixels) :
        \E image \in [GridOf(sh) -> {LabPixel(l) : l \in PixelLevels}] :
            \E palette \in Palettes :
                Start(sh, image, palette)

ComputeDistances ==
    /\ pc = "distances"
    /\ distances' = DistanceTensor(lab_image, palette_rgb)
    /\ pc' = "argmin"
    /\ UNCHANGED <<shape, lab_image, palette_rgb, assignments, raw,
                   target_pixels, i, normalized_image, run, first_palette,
                   first_output>>
    /\ UNCHANGED <<hex_vars, main_vars>>

AssignNearest ==
    /\ pc = "argmin"
    /\ assignments' = [p \in Grid |-> Argmin(distances[p])]
    /\ raw' = assignments'
    /\ target_pixels' = TargetPixels(Size)
    /\ i' = 0
    /\ pc' = "rebalance"
    /\ UNCHANGED <<shape, lab_image, palette_rgb, distances,
                   normalized_image, run, first_palette, first_output>>
    /\ UNCHANGED <<hex_vars, main_vars>>

Rebalance ==
    /\ pc = "rebalance"
    /\ assignments' \in RebalanceStep(assignments, distances, i,
                                      target_pixels, shape)
    /\ i' = i + 1
    /\ pc' = IF i = 2 THEN "materialize" ELSE "rebalance"
    /\ UNCHANGED <<shape, lab_image, palette_rgb, distances, raw,
                   target_pixels, normalized_image, run, first_palette,
                   first_output>>
    /\ UNCHANGED <<hex_vars, main_vars>>

Materialize ==
    /\ pc = "materialize"
    /\ normalized_image' = PaintAll(assignments, palette_rgb)
    /\ pc' = "done"
    /\ UNCHANGED <<shape, lab_image, palette_rgb, distances, assignments,
                   raw, target_pixels, i, run, first_palette, first_output>>
    /\ UNCHANGED <<hex_vars, main_vars>>

Next == ComputeDistances \/ AssignNearest \/ Rebalance \/ Materialize

Spec == Init /\ [][Next]_vars

(***************************************************************************)
(* Uniform images, up to MaxUniformSide x MaxUniformSide, through the same *)
(* pipeline.                                                               *)
(***************************************************************************)
InitUniform ==
    \E sh \in Shapes(MaxUniformSide, MaxUniformSide, MaxUniformPixels) :
        \E l \in UniformLevels :
            \E palette \in Palettes :
                Start(sh, [p \in GridOf(sh) |-> LabPixel(l)], palette)

SpecUniform == InitUniform /\ [][Next]_vars

(***************************************************************************)
(* Two calls on the same image, the second with the colours supplied in    *)
(* another order.                                                          *)
(***************************************************************************)
Permutations == {f \in [0..2 -> 0..2] : \A k \in 0..2 : \E j \in 0..2 : f[j] = k}

Permuted(palette, f) == [k \in 0..2 |-> palette[f[k]]]

Reversed(palette) == [k \in 0..2 |-> palette[2 - k]]

InitOrder ==
    \E sh \in Shapes(MaxH, MaxW, MaxOrderPixels) :
        \E image \in [GridOf(sh) -> {LabPixel(l) : l \in PixelLevels}] :
            \E palette \in Palettes :
                Start(sh, image, palette)

CallAgain ==
    /\ pc = "done"
    /\ run = 1
    /\ \E f \in Permutations : palette_rgb' = Permuted(palette_rgb, f)
    /\ first_palette' = palette_rgb
    /\ first_output' = normalized_image
    /\ run' = 2
    /\ distances' = None
    /\ assignments' = None
    /\ raw' = None
    /\ target_pixels' = 0
    /\ i' = 0
    /\ normalized_image' = None
    /\ pc' = "distances"
    /\ UNCHANGED <<shape, lab_image>>
    /\ UNCHANGED <<hex_vars, main_vars>>

NextOrder == Next \/ CallAgain

SpecOrder == InitOrder /\ [][NextOrder]_vars

(***************************************************************************)
(* Lines 7-13: hex_to_rgb.  A string is a sequence of characters.          *)
(***************************************************************************)
HexLen == 6

HexDigits == <<"0", "1", "2", "3", "4", "5", "6", "7", "8", "9",
               "A", "B", "C", "D", "E", "F">>
LowerHexDigits == <<"a", "b", "c", "d", "e", "f">>

IsHexDigit(c) ==
    \/ \E n \in 1..Len(HexDigits) : HexDigits[n] = c
    \/ \E n \in 1..Len(LowerHexDigits) : LowerHexDigits[n] = c

HexValue(c) ==
    IF \E n \in 1..Len(HexDigits) : HexDigits[n] = c
    THEN (CHOOSE n \in 1..Len(HexDigits) : HexDigits[n] = c) - 1
    ELSE (CHOOSE n \in 1..Len(LowerHexDigits) : LowerHexDigits[n] = c) + 9

\* str.lstrip(chars): drops every leading character that is in chars.
RECURSIVE LStrip(_, _)
LStrip(s, chars) ==
    IF s # <<>> /\ Head(s) \in chars THEN LStrip(Tail(s), chars) ELSE s

\* int(s, 16) of a two-character string: two hex digits, or a sign and one
\* hex digit; anything else raises ValueError.
IntBase16Raises(s) ==
    ~ \/ IsHexDigit(s[1]) /\ IsHexDigit(s[2])
      \/ s[1] \in {"+", "-"} /\ IsHexDigit(s[2])

IntBase16(s) ==
    IF IsHexDigit(s[1]) THEN 16 * HexValue(s[1]) + HexValue(s[2])
    ELSE IF s[1] = "-" THEN 0 - HexValue(s[2])
    ELSE HexValue(s[2])

Returned(value) == [raised |-> FALSE, value |-> value]
ValueError == [raised |-> TRUE, value |-> <<>>]

hex_to_rgb(str) ==
    LET stripped == LStrip(LStrip(str, {"0", "x"}), {"#"})
        Pair(n) == SubSeq(stripped, n + 1, n + 2)
    IN IF Len(stripped) = HexLen
       THEN IF \E n \in {0, 2, 4} : IntBase16Raises(Pair(n))
            THEN ValueError
            ELSE Returned(<<IntBase16(Pair(0)), IntBase16(Pair(2)),
                            IntBase16(Pair(4))>>)
       ELSE ValueError

\* The strings hex_to_rgb is called with: a prefix and a body.
Prefixes == {<<>>, <<"0", "x">>, <<"#">>, <<"x">>, <<"0", "0">>,
             <<"#", "#">>, <<"0", "x", "0", "x">>, <<"0", "x", "#">>}
BodyChars == {"0", "A", "g", "+"}
Bodies ==
    UNION {[1..n -> BodyChars] : n \in (HexLen - MaxSlack)..(HexLen + MaxSlack)}
HexStrings == {prefix \o body : prefix \in Prefixes, body \in Bodies}

InitHex ==
    /\ NormIdle
    /\ MainIdle
    /\ hex_str \in HexStrings
    /\ hex_result = None
    /\ hex_pc = "call"

CallHexToRgb ==
    /\ hex_pc = "call"
    /\ hex_result' = hex_to_rgb(hex_str)
    /\ hex_pc' = "returned"
    /\ UNCHANGED <<hex_str, norm_vars, main_vars>>

NextHex == CallHexToRgb

SpecHex == InitHex /\ [][NextHex]_vars

(***************************************************************************)
(* Lines 88-106: main, with process_image (lines 42-58) as its loop body.  *)
(***************************************************************************)
\* The --color arguments main is run with.
ColorArgs ==
    {<<"0", "x", "A", "0", "A", "0", "A", "0">>,
     <<"#", "F", "F", "0", "0", "F", "F">>,
     <<"0", "0", "0", "0", "0", "0">>,
     <<"0", "0", "A", "0", "A", "0", "A", "0">>,
     <<"x", "#", "A", "0", "A", "0", "A", "0">>,
     <<"A", "0", "A", "0", "g", "0">>,
     <<"A", "0", "A", "0", "A">>,
     <<"0", "x", "0", "x", "F", "F", "F", "F", "F", "F">>}

\* The image paths: cv2.imread decodes "photo" and returns None for "broken".
ImagePaths == {"photo", "broken"}
ImreadIsNone(path) == path = "broken"

SeqsUpTo(S, n) == UNION {[1..m -> S] : m \in 1..n}

InitMain ==
    /\ NormIdle
    /\ HexIdle
    /\ args_color \in SeqsUpTo(ColorArgs, MaxColors)
    /\ args_images \in SeqsUpTo(ImagePaths, MaxImages)
    /\ colors_rgb = None
    /\ image_idx = 0
    /\ process_calls = <<>>
    /\ saved = {}
    /\ main_pc = "check_count"

\* Lines 97-98: parser.error ends the run.
CheckCount ==
    /\ main_pc = "check_count"
    /\ main_pc' = IF Len(args_color) # 3 THEN "error" ELSE "convert"
    /\ UNCHANGED <<args_color, args_images, colors_rgb, image_idx,
                   process_calls, saved>>
    /\ UNCHANGED <<norm_vars, hex_vars>>

\* Lines 100-103: the first ValueError ends the run through parser.error.
ConvertColors ==
    /\ main_pc = "convert"
    /\ LET results == [n \in 1..Len(args_color) |-> hex_to_rgb(args_color[n])]
       IN IF \E n \in 1..Len(results) : results[n].raised
          THEN /\ main_pc' = "error"
               /\ UNCHANGED <<colors_rgb, image_idx>>
          ELSE /\ colors_rgb' = [n \in 1..Len(results) |-> results[n].value]
               /\ image_idx' = 1
               /\ main_pc' = "images"
    /\ UNCHANGED <<args_color, args_images, process_calls, saved>>
    /\ UNCHANGED <<norm_vars, hex_vars>>

\* Lines 54-55: the output file is named by the image and the colours.
OutputFile(path, colors) == <<path, colors>>

\* Lines 105-106 and 42-58: one call of process_image.  An image that does
\* not load is reported and skipped; otherwise the posterised image is saved.
ProcessImage ==
    /\ main_pc = "images"
    /\ image_idx <= Len(args_images)
    /\ process_calls' = Append(process_calls, args_images[image_idx])
    /\ saved' = IF ImreadIsNone(args_images[image_idx]) THEN saved
                ELSE saved \cup {OutputFile(args_images[image_idx], colors_rgb)}
    /\ image_idx' = image_idx + 1
    /\ UNCHANGED <<args_color, args_images, colors_rgb, main_pc>>
    /\ UNCHANGED <<norm_vars, hex_vars>>

\* Line 106: the loop is over and main returns.
Return ==
    /\ main_pc = "images"
    /\ image_idx > Len(args_images)
    /\ main_pc' = "exit"
    /\ UNCHANGED <<args_color, args_images, colors_rgb, image_idx,
                   process_calls, saved>>
    /\ UNCHANGED <<norm_vars, hex_vars>>

NextMain == CheckCount \/ ConvertColors \/ ProcessImage \/ Return

SpecMain == InitMain /\ [][NextMain]_vars

TypeOK ==
    /\ pc \in {"idle", "distances", "argmin", "rebalance", "materialize",
             "done"}
    /\ i \in 0..3
    /\ pc \in {"argmin", "rebalance", "materialize", "done"} =>
          \A p \in Grid : \A k \in 0..2 :
              distances[p][k] * distances[p][k] =
                  SumSq(Uint8Sub(lab_image[p], rgb_to_lab(palette_rgb[k])))

(***************************************************************************)
(* Properties of normalize_color_distribution.                             *)
(***************************************************************************)
Assigned == pc \in {"rebalance", "materialize", "done"}
Rebalanced == pc \in {"materialize", "done"}

RawCount(k) == Count(raw, k)
FinalCount(k) == Count(assignments, k)
CeilThird == (Total + 2) \div 3
RawAllOn(k) == \A p \in Grid : raw[p] = k

\* C1: once the assignment map exists it covers exactly the input grid and
\* holds only 0, 1, 2; when normalize_color_distribution has finished, the
\* output covers the grid and every output pixel is
\* palette_rgb[assignments[pixel]].
OutputIsPaletteLookup ==
    /\ Assigned =>
          /\ DOMAIN assignments = Grid
          /\ \A p \in Grid : assignments[p] \in 0..2
    /\ pc = "done" =>
          /\ DOMAIN normalized_image = Grid
          /\ \A p \in Grid : normalized_image[p] = palette_rgb[assignments[p]]

\* C1 witness: a finished run on a palette without black in which the
\* rebalancing moved pixels and all three indices are in use.
OutputIsPaletteLookupWitness ==
    /\ pc = "done"
    /\ assignments # raw
    /\ \A k \in 0..2 : FinalCount(k) > 0
    /\ \A k \in 0..2 : palette_rgb[k] # Black

\* C2: after the rebalancing pass every index covers floor(total/3) or
\* ceil(total/3) pixels.
CountsWithinOneOfThird ==
    Rebalanced =>
        \A k \in 0..2 : FinalCount(k) \in {target_pixels, CeilThird}

\* C3 as claimed: when the raw count of index 0 exceeds T, the final count
\* of index 0 is at most T.
Index0FinalAtMostT ==
    (Rebalanced /\ RawCount(0) > target_pixels) =>
        FinalCount(0) <= target_pixels

\* C3 as amended: when the raw count of index 0 exceeds T, index 0 holds
\* exactly T pixels from the end of its own step until index 2 is
\* processed; in the final map it holds at least T, and more than T only
\* with pixels that the step of index 2 reassigned to (2+1) mod 3 = 0, which
\* leaves index 2 at exactly T.
Index0DrainedUntilStep2 ==
    RawCount(0) > target_pixels =>
        /\ (pc = "rebalance" /\ i \in {1, 2}) =>
              FinalCount(0) = target_pixels
        /\ Rebalanced =>
              /\ FinalCount(0) >= target_pixels
              /\ FinalCount(0) > target_pixels =>
                    FinalCount(2) = target_pixels

\* C3 witness: a finished pass in which index 0 started above T, was
\* drained, and ends above T again.
Index0DrainedUntilStep2Witness ==
    /\ Rebalanced
    /\ Assigned
    /\ RawCount(0) > target_pixels
    /\ FinalCount(0) > target_pixels
    /\ target_pixels > 0

\* The distance of the specification: the Euclidean norm of the signed
\* channel differences, compared by its square.
SignedSumSq(p, q) ==
    (p[1] - q[1]) * (p[1] - q[1]) + (p[2] - q[2]) * (p[2] - q[2])
        + (p[3] - q[3]) * (p[3] - q[3])

SignedNearest(pixel, palette) ==
    CHOOSE k \in 0..2 :
        /\ \A j \in 0..2 :
              SignedSumSq(pixel, rgb_to_lab(palette[k]))
                  <= SignedSumSq(pixel, rgb_to_lab(palette[j]))
        /\ \A j \in 0..2 : j < k =>
              SignedSumSq(pixel, rgb_to_lab(palette[j]))
                  > SignedSumSq(pixel, rgb_to_lab(palette[k]))

\* C4: the raw assignment of every pixel is the lowest palette index among
\* those at the least Euclidean distance, the channel differences taken as
\* signed values.
RawIsSignedNearest ==
    Assigned =>
        \A p \in Grid : raw[p] = SignedNearest(lab_image[p], palette_rgb)

\* C7: the step of the rebalancing loop for index i changes nothing when
\* the excess is not positive; otherwise it changes exactly excess pixels,
\* all assigned to i before and to (i+1) mod 3 after, and each of them has a
\* combined distance to the other two colours no larger than that of any
\* pixel left on i.
StepFrame ==
    pc = "rebalance" =>
        LET excess == Count(assignments, i) - target_pixels
            changed == {p \in Grid : assignments'[p] # assignments[p]}
            stay == {p \in Grid : assignments[p] = i /\ assignments'[p] = i}
            key(p) == distances[p][(i + 1) % 3] + distances[p][(i + 2) % 3]
        IN /\ excess <= 0 => assignments' = assignments
           /\ excess > 0 =>
                 /\ Cardinality(changed) = excess
                 /\ \A p \in changed :
                       /\ assignments[p] = i
                       /\ assignments'[p] = (i + 1) % 3
                 /\ \A p \in changed : \A q \in stay : key(p) <= key(q)

SingleIndexLeavesT ==
    \A k \in 0..2 :
        (Assigned /\ RawAllOn(k)) =>
            /\ ((pc = "rebalance" /\ i = k + 1) \/ (pc = "materialize" /\ k = 2)) =>
                  /\ FinalCount(k) = target_pixels
                  /\ FinalCount((k + 1) % 3) = Total - target_pixels
            /\ Rebalanced => FinalCount(k) = target_pixels

\* C8 as amended: when the raw assignment puts every pixel on one index k,
\* the step of k leaves T pixels on k and total - T on (k+1) mod 3; the
\* final map holds exactly T pixels on k for k = 1 and k = 2, and
\* T + (total mod 3) pixels for k = 0, which is T when 3 divides total.
SingleIndexFinalCount ==
    \A k \in 0..2 :
        (Assigned /\ RawAllOn(k)) =>
            /\ ((pc = "rebalance" /\ i = k + 1) \/ (pc = "materialize" /\ k = 2)) =>
                  /\ FinalCount(k) = target_pixels
                  /\ FinalCount((k + 1) % 3) = Total - target_pixels
            /\ Rebalanced =>
                  FinalCount(k) =
                      IF k = 0 THEN target_pixels + (Total % 3)
                      ELSE target_pixels

\* C8 witness: the 3 x 3 all-black image with the palette black, grey,
\* white: 3 pixels are left on black and 6 were moved.
SingleIndexFinalCountWitness ==
    /\ pc = "done"
    /\ shape = <<3, 3>>
    /\ \A p \in Grid : lab_image[p] = LabPixel(0)
    /\ palette_rgb = [k \in 0..2 |-> <<Black, Gray, White>>[k + 1]]
    /\ RawAllOn(0)
    /\ FinalCount(0) = 3
    /\ Cardinality({p \in Grid : assignments[p] # raw[p]}) = 6

\* C10: in the final assignment map the three counts add up to the number
\* of pixels, indices 1 and 2 hold at most T pixels each, and index 0 holds
\* at least total - 2T.
FinalCountsBounded ==
    Rebalanced =>
        /\ FinalCount(0) + FinalCount(1) + FinalCount(2) = Total
        /\ FinalCount(1) <= target_pixels
        /\ FinalCount(2) <= target_pixels
        /\ FinalCount(0) >= Total - 2 * target_pixels

\* C10 witness: a finished pass in which index 0 started with no pixel and
\* ends above T, on pixels received after its own step.
FinalCountsBoundedWitness ==
    /\ Rebalanced
    /\ Assigned
    /\ target_pixels > 0
    /\ RawCount(0) = 0
    /\ FinalCount(0) > target_pixels

\* C9: the output depends on the order of the colours.  For every image of
\* at least 3 pixels whose raw assignment under a palette of 3 distinct
\* colours puts every pixel on index 0, the output under the reversed
\* palette differs from the output under the palette.
AllDistinct(palette) ==
    \A j \in 0..2 : \A k \in 0..2 : j # k => palette[j] # palette[k]

OrderSensitive ==
    (/\ run = 2
     /\ pc = "done"
     /\ Total >= 3
     /\ AllDistinct(first_palette)
     /\ palette_rgb = Reversed(first_palette)
     /\ \A p \in Grid :
           Argmin(DistanceTensor(lab_image, first_palette)[p]) = 0)
        => normalized_image # first_output

\* C9 witness: a dark image posterised with dark, mid, light and then with
\* light, mid, dark, the two outputs differing.
OrderSensitiveWitness ==
    /\ run = 2
    /\ pc = "done"
    /\ Total >= 3
    /\ first_palette = [k \in 0..2 |-> <<Black, Gray, White>>[k + 1]]
    /\ palette_rgb = [k \in 0..2 |-> <<White, Gray, Black>>[k + 1]]
    /\ \A p \in Grid : lab_image[p] \in {LabPixel(0), LabPixel(100)}
    /\ normalized_image # first_output

(***************************************************************************)
(* Properties of hex_to_rgb and main.                                      *)
(***************************************************************************)
\* A palette colour string of the specification: 6 hex digits, bare or
\* after one "0x" or one "#".
AllowedPrefixes == {<<>>, <<"0", "x">>, <<"#">>}

WellFormed(str) ==
    \E prefix \in AllowedPrefixes :
        /\ Len(str) = Len(prefix) + HexLen
        /\ SubSeq(str, 1, Len(prefix)) = prefix
        /\ \A n \in (Len(prefix) + 1)..Len(str) : IsHexDigit(str[n])

Digits(str) == SubSeq(str, Len(str) - HexLen + 1, Len(str))

Channels(str) ==
    [n \in 1..3 |->
        16 * HexValue(Digits(str)[2 * n - 1]) + HexValue(Digits(str)[2 * n])]

\* C5: hex_to_rgb returns, for every well-formed colour string, the triple
\* of the values of its digit pairs.
HexToRgbAcceptsWellFormed ==
    (hex_pc = "returned" /\ WellFormed(hex_str)) =>
        /\ ~ hex_result.raised
        /\ hex_result.value = Channels(hex_str)

\* C6: a palette that is not exactly three well-formed colour strings ends
\* the run in a configuration error: process_image is never called and no
\* output file is written.
WellFormedPalette ==
    /\ Len(args_color) = 3
    /\ \A n \in 1..3 : WellFormed(args_color[n])

MalformedPaletteRejected ==
    (main_pc # "idle" /\ ~ WellFormedPalette) =>
        /\ main_pc # "exit"
        /\ process_calls = <<>>
        /\ saved = {}
====
